---------------------------- MODULE Spec2Model ----------------------------
(* A model of ptcgp-server.py: the card dataset loader (load_data), the     *)
(* server's startup hook (lifespan) and the four query tools                *)
(* (get_card_data, fuzzy_search_pokemon, filter_by_color,                   *)
(* fuzzy_search_ability).                                                   *)
(*                                                                          *)
(* Texts that the code only compares for equality (ids, names, ability      *)
(* infos) are TLA+ strings.  Texts that the code transforms are sequences:  *)
(* a color is a sequence of characters (str.lower works per character), a   *)
(* JSON cell of the CSV file is a sequence of tokens (json.loads parses     *)
(* it).                                                                     *)
EXTENDS Integers, Sequences, FiniteSets

VARIABLES
    file,              \* cards_2025-03-26.csv on disk: present or not, and its rows
    phase,             \* "init" | "serving" | "startup_failed" | "stopped"
    df,                \* the local variable df of lifespan
    lifespan_context,  \* what lifespan yielded: the request's lifespan context
    startup_error,     \* the message of the error startup raised ("" if none)
    last_call          \* the latest completed tool call: op, argument, result

vars == <<file, phase, df, lifespan_context, startup_error, last_call>>

-----------------------------------------------------------------------------
(* Bounds of the model.                                                     *)

\* the CSV files considered hold at most MaxRows rows
MaxRows == 2

-----------------------------------------------------------------------------
(* Python values.                                                           *)

\* Python's None
None == [kind |-> "None"]

\* a name that is not bound yet (lifespan has not run its first line)
Unbound == [kind |-> "unbound"]

\* a pandas DataFrame holding the rows `rows`
DataFrame(rows) == [kind |-> "DataFrame", rows |-> rows]

-----------------------------------------------------------------------------
(* The dataset file.                                                        *)

\* an empty CSV field: read_csv yields NaN for it
NaN == <<>>

\* card ids, card names and stored colors of the files considered
Ids == {"A1", "A2"}
Names == {"Mew", "Abcdf"}
Colors == { <<"R", "e", "d">>, <<"b", "l", "u", "e">> }

\* the texts of an `attack` cell: empty, a JSON array of one object,
\* a truncated (malformed) JSON text
AttackCells == { NaN, <<"[", "Tackle", "]">>, <<"[", "Tackle">> }

\* the texts of an `ability` cell: empty, a JSON array of one ability,
\* a malformed JSON text
AbilityCells == { NaN, <<"[", "Zap", "]">>, <<"Zap", "]">> }

\* one row of the CSV file, the two JSON columns still text
CsvRows == [id : Ids, name : Names, color : Colors,
            attack : AttackCells, ability : AbilityCells]

\* the sequences over S of length at most n
SeqUpTo(S, n) == UNION { [1..k -> S] : k \in 0..n }

FileMissing == [exists |-> FALSE, rows |-> <<>>]

Files == {FileMissing} \cup { [exists |-> TRUE, rows |-> r] : r \in SeqUpTo(CsvRows, MaxRows) }

-----------------------------------------------------------------------------
(* load_data.                                                               *)

\* pd.notna(x) for a cell of a text column
pd_notna(x) == x # NaN

\* json.loads(x) on a token text: <<"[", o1, ..., on, "]">> is the JSON array
\* of the objects {"info": o1} ... {"info": on}; any other text is malformed
\* and json.loads raises JSONDecodeError
json_wellformed(x) ==
    /\ Len(x) >= 2
    /\ x[1] = "["
    /\ x[Len(x)] = "]"
    /\ \A i \in 2..(Len(x) - 1) : x[i] \notin {"[", "]"}

json_loads(x) == [i \in 1..(Len(x) - 2) |-> [info |-> x[i + 1]]]

\* the lambda of line 27: json.loads(x) if pd.notna(x) else []
decode_cell(x) == IF pd_notna(x) THEN json_loads(x) ELSE <<>>

\* whether the lambda of line 27 raises JSONDecodeError on the cell
decode_raises(x) == pd_notna(x) /\ ~json_wellformed(x)

\* load_data with the lambda of line 27 catching the decode error of a cell
\* and putting [] in its place
load_data_swallows(f) ==
    [raised |-> IF f.exists THEN "" ELSE "Card database file not found",
     frame  |-> DataFrame([i \in 1..Len(f.rows) |->
                    [f.rows[i] EXCEPT
                        !.attack  = IF decode_raises(@) THEN <<>> ELSE decode_cell(@),
                        !.ability = IF decode_raises(@) THEN <<>> ELSE decode_cell(@)]])]

\* load_data(): what it raises ("" when it returns) and the frame it returns
load_data(f) ==
    IF ~f.exists
    THEN [raised |-> "Card database file not found", frame |-> None]
    ELSE IF \E i \in 1..Len(f.rows) :
                decode_raises(f.rows[i].attack) \/ decode_raises(f.rows[i].ability)
    THEN [raised |-> "Invalid JSON format in data columns", frame |-> None]
    ELSE [raised |-> "",
          frame  |-> DataFrame([i \in 1..Len(f.rows) |->
                        [f.rows[i] EXCEPT !.attack  = decode_cell(@),
                                          !.ability = decode_cell(@)]])]

-----------------------------------------------------------------------------
(* What a tool call ends in.                                                *)

NoRows == <<>>

\* the call raised: an unhandled exception leaves the tool function
Fault(exc) ==
    [shape |-> "fault", payload |-> "none", rows |-> NoRows, error |-> "", code |-> 0, exc |-> exc]

\* the call returned a bare list of records
BareRecords(rows) ==
    [shape |-> "bare", payload |-> "records", rows |-> rows, error |-> "", code |-> 0, exc |-> ""]

\* the call returned the tuple ({"error": msg}, code)
ErrorPair(msg, code) ==
    [shape |-> "pair", payload |-> "error", rows |-> NoRows, error |-> msg, code |-> code, exc |-> ""]

\* the call returned the tuple (record, code)
RecordPair(row, code) ==
    [shape |-> "pair", payload |-> "record", rows |-> <<row>>, error |-> "", code |-> code, exc |-> ""]

\* the call returned the tuple (list of records, code)
RecordsPair(rows, code) ==
    [shape |-> "pair", payload |-> "records", rows |-> rows, error |-> "", code |-> code, exc |-> ""]

-----------------------------------------------------------------------------
(* Helpers of the query tools.                                              *)

\* ctx.request_context.lifespan_context["df"] raises TypeError unless the
\* lifespan context is a mapping, [kind |-> "dict", df |-> frame]: None is not
\* subscriptable
Subscriptable(lc) == lc.kind = "dict"

\* frame[mask].to_dict(orient="records") is SelectSeq: the rows that satisfy
\* the mask, in table order

\* str.lower on one character
LowerChar(c) ==
    CASE c = "R" -> "r"
      [] c = "E" -> "e"
      [] c = "D" -> "d"
      [] c = "B" -> "b"
      [] c = "L" -> "l"
      [] c = "U" -> "u"
      [] OTHER -> c

\* str.lower
lower(s) == [i \in 1..Len(s) |-> LowerChar(s[i])]

\* Series.unique().tolist(): the distinct values in order of first appearance
unique(s) ==
    LET first(i) == \A j \in 1..(i - 1) : s[j] # s[i]
        keep == { i \in 1..Len(s) : first(i) }
        RECURSIVE pick(_)
        pick(i) == IF i > Len(s) THEN <<>>
                   ELSE IF i \in keep THEN <<s[i]>> \o pick(i + 1)
                   ELSE pick(i + 1)
    IN  pick(1)

\* fuzzywuzzy.utils.full_process on the texts of the model: lower-cased
full_process(s) ==
    CASE s = "Mew" -> "mew"
      [] s = "Abcdf" -> "abcdf"
      [] s = "Zap" -> "zap"
      [] OTHER -> s

\* fuzzywuzzy.fuzz.WRatio, the default scorer of process.extractOne, on the
\* texts of the model: 0 for an empty text, 100 for texts equal once
\* processed, 60 for "abcxy" against "abcdf" (three of five characters in one
\* matching block: 2*3/10), 0 for the other pairs compared, which share no
\* character
WRatio(s1, s2) ==
    LET p1 == full_process(s1)
        p2 == full_process(s2)
    IN  IF p1 = "" \/ p2 = "" THEN 0
        ELSE IF p1 = p2 THEN 100
        ELSE IF {p1, p2} = {"abcxy", "abcdf"} THEN 60
        ELSE 0

\* process.extractOne(query, choices): None for no choices, otherwise the
\* first choice of the highest score (max keeps the first maximum) with its
\* score
extractOne(query, choices) ==
    IF Len(choices) = 0
    THEN [found |-> FALSE, choice |-> "", score |-> 0]
    ELSE LET best == CHOOSE i \in 1..Len(choices) :
                        /\ \A j \in 1..Len(choices) :
                              WRatio(query, choices[j]) <= WRatio(query, choices[i])
                        /\ \A j \in 1..(i - 1) :
                              WRatio(query, choices[j]) < WRatio(query, choices[i])
         IN  [found |-> TRUE, choice |-> choices[best], score |-> WRatio(query, choices[best])]

\* the loop of lines 85-88: the (info, id) pairs of every ability of every row
RECURSIVE flatten_abilities(_)
flatten_abilities(rows) ==
    IF Len(rows) = 0 THEN <<>>
    ELSE [k \in 1..Len(Head(rows).ability) |->
             [info |-> Head(rows).ability[k].info, id |-> Head(rows).id]]
         \o flatten_abilities(Tail(rows))

-----------------------------------------------------------------------------
(* The query tools: what a call ends in, given the request's lifespan       *)
(* context and the argument.                                                *)

\* the score below which both fuzzy searches report no match (lines 56, 94)
Threshold == 60

get_card_data(lc, card_id) ==
    IF ~Subscriptable(lc) THEN Fault("TypeError")
    ELSE LET frame == lc.df
             card == SelectSeq(frame.rows, LAMBDA r : r.id = card_id)
         IN  \* frame is not checked against None: None["id"] raises
             IF frame = None THEN Fault("TypeError")
             \* `card[0] if card else {...}, 404` is the tuple (.., 404)
             ELSE IF Len(card) > 0 THEN RecordPair(card[1], 404)
             ELSE ErrorPair("Card not found", 404)

fuzzy_search_pokemon(lc, name) ==
    IF ~Subscriptable(lc) THEN Fault("TypeError")
    ELSE LET frame == lc.df
             names == unique([i \in 1..Len(frame.rows) |-> frame.rows[i].name])
             best_match == extractOne(name, names)
         IN  IF frame = None THEN Fault("TypeError")
             \* best_match[1] on None raises
             ELSE IF ~best_match.found THEN Fault("TypeError")
             ELSE IF best_match.score < Threshold
             THEN ErrorPair("No close match found", 404)
             ELSE BareRecords(SelectSeq(frame.rows, LAMBDA r : r.name = best_match.choice))

filter_by_color(lc, color) ==
    IF ~Subscriptable(lc) THEN Fault("TypeError")
    ELSE LET frame == lc.df
             filtered == SelectSeq(frame.rows, LAMBDA r : lower(r.color) = lower(color))
         IN  IF frame = None THEN ErrorPair("Card database missing", 500)
             \* the conditional expression is parenthesised: the 404 pairs with both arms
             ELSE IF Len(filtered) > 0 THEN RecordsPair(filtered, 404)
             ELSE ErrorPair("No cards found", 404)

fuzzy_search_ability(lc, ability_query) ==
    IF ~Subscriptable(lc) THEN Fault("TypeError")
    ELSE LET frame == lc.df
             all_abilities == flatten_abilities(frame.rows)
             ability_texts == [k \in 1..Len(all_abilities) |-> all_abilities[k].info]
             best_match == extractOne(ability_query, ability_texts)
             matched_ids == { all_abilities[k].id :
                                k \in { n \in 1..Len(all_abilities) :
                                          all_abilities[n].info = best_match.choice } }
         IN  IF frame = None THEN ErrorPair("Card database missing", 500)
             ELSE IF ~best_match.found \/ best_match.score < Threshold
             THEN ErrorPair("No matching abilities found", 404)
             ELSE BareRecords(SelectSeq(frame.rows, LAMBDA r : r.id \in matched_ids))

-----------------------------------------------------------------------------
(* The server.                                                              *)

\* the arguments the host calls the tools with
CardIdArgs == Ids \cup {"__nonexistent__"}
NameArgs == {"mew", "abcxy", "zzzqqqnomatch"}
ColorArgs == { <<"R", "e", "d">>, <<"r", "e", "d">>, <<"B", "L", "U", "E">>, <<"p", "i", "n", "k">> }
AbilityArgs == {"zap", "Zap", "qqq"}

NoResult ==
    [shape |-> "none", payload |-> "none", rows |-> NoRows, error |-> "", code |-> 0, exc |-> ""]

NoCall == [op |-> "none", arg |-> "", result |-> NoResult]

Init ==
    /\ file \in Files
    /\ phase = "init"
    /\ df = Unbound
    /\ lifespan_context = Unbound
    /\ startup_error = ""
    /\ last_call = NoCall

\* what lifespan hands to the framework at line 16: a bare `yield` yields
\* None, whatever df holds
lifespan_yield(frame) == None

\* lifespan up to its yield (lines 13-16): load_data runs, an error it raises
\* leaves lifespan and the server does not start
Startup ==
    /\ phase = "init"
    /\ LET r == load_data(file)
       IN  IF r.raised # ""
           THEN /\ phase' = "startup_failed"
                /\ startup_error' = r.raised
                /\ UNCHANGED <<df, lifespan_context>>
           ELSE /\ phase' = "serving"
                /\ df' = r.frame
                /\ lifespan_context' = lifespan_yield(r.frame)
                /\ UNCHANGED startup_error
    /\ UNCHANGED <<file, last_call>>

\* a tool call completes: nothing but the record of the call changes
Completes(op, arg, result) ==
    /\ last_call' = [op |-> op, arg |-> arg, result |-> result]
    /\ UNCHANGED <<file, phase, df, lifespan_context, startup_error>>

CallGetCardData ==
    /\ phase = "serving"
    /\ \E card_id \in CardIdArgs :
          Completes("get_card_data", card_id, get_card_data(lifespan_context, card_id))

CallFuzzySearchPokemon ==
    /\ phase = "serving"
    /\ \E name \in NameArgs :
          Completes("fuzzy_search_pokemon", name, fuzzy_search_pokemon(lifespan_context, name))

\* filter_by_color with the color column lower-cased in place
\* (df["color"] = df["color"].str.lower()) instead of in a temporary
CallFilterByColor_in_place ==
    /\ phase = "serving"
    /\ \E color \in ColorArgs :
          /\ last_call' = [op |-> "filter_by_color", arg |-> color,
                           result |-> filter_by_color(lifespan_context, color)]
          /\ df' = DataFrame([i \in 1..Len(df.rows) |->
                                [df.rows[i] EXCEPT !.color = lower(@)]])
          /\ UNCHANGED <<file, phase, lifespan_context, startup_error>>

CallFilterByColor ==
    /\ phase = "serving"
    /\ \E color \in ColorArgs :
          Completes("filter_by_color", color, filter_by_color(lifespan_context, color))

CallFuzzySearchAbility ==
    /\ phase = "serving"
    /\ \E ability_query \in AbilityArgs :
          Completes("fuzzy_search_ability", ability_query,
                    fuzzy_search_ability(lifespan_context, ability_query))

\* lifespan after its yield (line 17), when the server stops
Shutdown ==
    /\ phase = "serving"
    /\ phase' = "stopped"
    /\ df' = None
    /\ UNCHANGED <<file, lifespan_context, startup_error, last_call>>

Next ==
    \/ Startup
    \/ CallGetCardData
    \/ CallFuzzySearchPokemon
    \/ CallFilterByColor
    \/ CallFuzzySearchAbility
    \/ Shutdown

Spec == Init /\ [][Next]_vars

-----------------------------------------------------------------------------
(* Vocabulary of the properties.                                            *)

\* the latest completed call and what it ended in
Called(op) == last_call.op = op
SomeCall == last_call.op # "none"
Result == last_call.result

\* the call returned (it did not raise)
Returned == Result.shape \in {"bare", "pair"}

\* a bare record as the result of a call: what the exact lookup is to return
BareRecord(row) ==
    [shape |-> "bare", payload |-> "record", rows |-> <<row>>, error |-> "", code |-> 0, exc |-> ""]

\* the NotFound result: ({error: ...}, 404)
IsNotFound(res) == res.shape = "pair" /\ res.payload = "error" /\ res.code = 404

\* the DatasetUnavailable result
DatasetUnavailable == ErrorPair("Card database missing", 500)

\* the JSON text of a decoded value (the inverse of decoding)
json_dumps(v) == <<"[">> \o [i \in 1..Len(v) |-> v[i].info] \o <<"]">>

\* the values a JSON cell of the files considered can stand for
JsonValues == SeqUpTo([info : {"Tackle", "Zap"}], 2)

\* a present cell that is the JSON text of no value
Malformed(x) == x # NaN /\ ~ \E v \in JsonValues : json_dumps(v) = x

FileCorrupt ==
    \E i \in 1..Len(file.rows) : Malformed(file.rows[i].attack) \/ Malformed(file.rows[i].ability)

\* the dataset file is present and every attack/ability cell is well-formed
NormalConditions == file.exists /\ ~FileCorrupt

\* the highest score of a query over a non-empty set of candidate texts
BestScore(query, texts) ==
    CHOOSE n \in 0..100 : /\ \E t \in texts : WRatio(query, t) = n
                          /\ \A t \in texts : WRatio(query, t) <= n

-----------------------------------------------------------------------------
(* The claims.                                                              *)

\* C1: under normal conditions (file present, cells well-formed) the server
\* starts, the lifespan context of a request holds the table that the
\* startup hook loaded, and every call returns record(s) or a tagged error
\* payload: none ends in an unhandled fault.
C1_NoUnhandledFault ==
    (NormalConditions /\ phase # "init") =>
        /\ phase # "startup_failed"
        /\ phase = "serving" =>
              /\ Subscriptable(lifespan_context)
              /\ lifespan_context.df = df
        /\ SomeCall => Returned

\* C2: the result of a call carries a status code exactly when it is an
\* error payload: a success is a bare record (get_card_data) or a bare
\* sequence of records (the other tools), a failure is the pair of an error
\* mapping and a code in {404, 500}; records are never paired with 404.
C2_ResultShape ==
    SomeCall =>
        \/ /\ Result.shape = "bare"
           /\ Result.payload = IF Called("get_card_data") THEN "record" ELSE "records"
        \/ /\ Result.shape = "pair"
           /\ Result.payload = "error"
           /\ Result.code \in {404, 500}

\* C3: with the dataset file missing at load time, startup does not fault
\* and every call returns DatasetUnavailable, ({error: "Card database
\* missing"}, 500).
C3_MissingFileIsDatasetUnavailable ==
    (~file.exists /\ phase # "init") =>
        /\ phase # "startup_failed"
        /\ SomeCall => Result = DatasetUnavailable

\* C4: get_card_data(id) returns exactly one record, the first row of the
\* table whose id is the queried id, when there is such a row, and NotFound
\* (404) when there is none.
C4_ExactLookup ==
    (phase = "serving" /\ Called("get_card_data")) =>
        LET hits == SelectSeq(df.rows, LAMBDA r : r.id = last_call.arg)
        IN  IF Len(hits) > 0
            THEN Result = BareRecord(hits[1])
            ELSE IsNotFound(Result)

\* C5: fuzzy_search_pokemon(name) returns NotFound (404) when the best score
\* over the distinct names of the table is below 60, and otherwise (60
\* included) exactly the rows whose name is the winning, highest-scoring
\* name.
C5_FuzzyName ==
    (phase = "serving" /\ Called("fuzzy_search_pokemon")
        /\ Len(df.rows) > 0) =>
        LET names == { df.rows[i].name : i \in 1..Len(df.rows) }
            best == BestScore(last_call.arg, names)
        IN  IF best < Threshold
            THEN IsNotFound(Result)
            ELSE \E w \in names :
                    /\ WRatio(last_call.arg, w) = best
                    /\ Result = BareRecords(SelectSeq(df.rows, LAMBDA r : r.name = w))

\* C6: fuzzy_search_ability(query) returns NotFound (404) when the table
\* holds no ability text or the best ability text scores below 60, and
\* otherwise exactly the rows of the cards with an ability whose info is the
\* winning text, each once.
C6_FuzzyAbility ==
    (phase = "serving" /\ Called("fuzzy_search_ability")) =>
        LET infos == UNION { { df.rows[i].ability[k].info : k \in 1..Len(df.rows[i].ability) } :
                             i \in 1..Len(df.rows) }
        IN  IF infos = {} \/ BestScore(last_call.arg, infos) < Threshold
            THEN IsNotFound(Result)
            ELSE \E w \in infos :
                    /\ WRatio(last_call.arg, w) = BestScore(last_call.arg, infos)
                    /\ Result.shape = "bare"
                    /\ Result.payload = "records"
                    /\ Result.rows = SelectSeq(df.rows, LAMBDA r :
                           \E k \in 1..Len(r.ability) : r.ability[k].info = w)

\* C7: filter_by_color is case-insensitive: it selects exactly the rows
\* whose stored color equals the argument once both are lower-cased, and
\* arguments equal after lower-casing get identical results.
C7_ColorCaseInsensitive ==
    (phase = "serving" /\ Called("filter_by_color")) =>
        LET hits == SelectSeq(df.rows, LAMBDA r : lower(r.color) = lower(last_call.arg))
        IN  /\ Returned
            /\ IF Len(hits) > 0 THEN Result.payload = "records" /\ Result.rows = hits
                                ELSE IsNotFound(Result)
            /\ \A c \in ColorArgs :
                  lower(c) = lower(last_call.arg) =>
                      filter_by_color(lifespan_context, c) = Result

\* C10: on a table without rows fuzzy_search_pokemon returns NotFound (404)
\* for every input; it does not fault on the absent best match.
C10_EmptyTableNotFound ==
    (phase = "serving" /\ Called("fuzzy_search_pokemon") /\ Len(df.rows) = 0) =>
        IsNotFound(Result)

\* C8: load_data decodes the attack and ability columns cell by cell: an
\* absent cell becomes the empty sequence, a present cell the value its JSON
\* text stands for, the other columns pass through; one malformed cell fails
\* the whole load with an error and no table, partial or not, comes out of it.
C8_LoadDecodesCells ==
    (file.exists /\ phase # "init") =>
        IF FileCorrupt
        THEN /\ phase = "startup_failed"
             /\ startup_error = "Invalid JSON format in data columns"
             /\ df = Unbound
             /\ lifespan_context = Unbound
        ELSE /\ phase # "startup_failed"
             /\ startup_error = ""
             /\ phase = "serving" =>
                   /\ Len(df.rows) = Len(file.rows)
                   /\ \A i \in 1..Len(file.rows) :
                         /\ df.rows[i].id = file.rows[i].id
                         /\ df.rows[i].name = file.rows[i].name
                         /\ df.rows[i].color = file.rows[i].color
                         /\ \A col \in {"attack", "ability"} :
                               IF file.rows[i][col] = NaN
                               THEN df.rows[i][col] = <<>>
                               ELSE /\ df.rows[i][col] \in JsonValues
                                    /\ json_dumps(df.rows[i][col]) = file.rows[i][col]

\* C8's case: a file with an absent cell and a present cell has been loaded
C8_Witness ==
    /\ phase = "serving"
    /\ \E i \in 1..Len(file.rows) :
          /\ file.rows[i].ability = NaN
          /\ file.rows[i].attack # NaN
          /\ Len(df.rows[i].attack) = 1

=============================================================================
